---- MODULE Spec2Model ----
(***************************************************************************)
(* A model of the FBAS analyzer: the quorum predicate, the minimal-quorum  *)
(* enumeration and the quorum-intersection decision (src/src/quorums.rs),  *)
(* the SimpleRandomQsc configurator                                        *)
(* (src/src/simulation/quorum_set_configurators/random.rs) and the random  *)
(* graph generators                                                        *)
(* (src/src/simulation/quorum_set_configurators/graph/mod.rs).             *)
(*                                                                         *)
(* A BitSet is modelled by the set of its members, a Vec by a sequence     *)
(* (NodeId i of the code is position i + 1 of the sequence).               *)
(***************************************************************************)
EXTENDS Integers, Sequences, FiniteSets, TLC

VARIABLES
    network,    \* quorums.rs: Network.nodes, each node reduced to its quorum_set
    call,       \* the last call of the quorums.rs API: operation, argument, result
    qsc,        \* random.rs: the SimpleRandomQsc (sizes and adapt_until_satisfied)
    fbas,       \* random.rs: Fbas.nodes, each node reduced to its quorum_set
    last,       \* the last configure call: node, node count, effect, whether it modified
    sim,        \* the Simulator: where simulate_growth stands
    gen         \* graph/mod.rs: a graph generator call, its locals and its position

qvars == <<network, call>>
svars == <<qsc, fbas, last, sim>>
vars == <<network, call, qsc, fbas, last, sim, gen>>

(***************************************************************************)
(* Bounds of the model.                                                    *)
(***************************************************************************)
\* nodes of a network handed to the analysis
MaxNodes == 2
\* largest threshold of a quorum set handed to the analysis
MaxThreshold == 2
\* inner quorum sets of a quorum set (the inner sets themselves have none)
MaxInner == 1
\* nodes a simulated FBAS grows to
MaxSimNodes == 3
\* largest desired_quorum_set_size and desired_threshold of a SimpleRandomQsc
MaxDesired == 3
\* largest n of a generated graph; m0, m and k range one further
MaxGraphNodes == 5

(***************************************************************************)
(* Helpers.                                                                *)
(***************************************************************************)
Min(a, b) == IF a <= b THEN a ELSE b

SetMin(S) == CHOOSE x \in S : \A y \in S : x <= y

\* (lo..hi).collect(): the members of S in ascending order
RECURSIVE AscSeq(_)
AscSeq(S) == IF S = {} THEN <<>> ELSE <<SetMin(S)>> \o AscSeq(S \ {SetMin(S)})

\* the largest usize; TLC's integers are 32 bits wide, so the 64-bit word is
\* cut to 31 bits, which is still larger than every count of the model
UsizeMax == (2^30 - 1) + 2^30

\* usize subtraction in a release build: wraps around
UsizeSub(a, b) == IF a >= b THEN a - b ELSE (UsizeMax - (b - a)) + 1

\* QuorumSet::new(): the empty quorum set
EmptyQuorumSet == [threshold |-> 0, validators |-> <<>>, inner_quorum_sets |-> <<>>]

(***************************************************************************)
(* quorums.rs: the quorum predicate.                                       *)
(***************************************************************************)
\* iter.take(k).count() on an iterator that would yield `count` items, wrongly
\* without the take
TakeAll(count, k) == count

\* iter.take(k).count() on an iterator that would yield `count` items
TakeCount(count, k) == Min(count, k)

\* QuorumSet::is_quorum, first half: validators.filter(in node_set).take(threshold).count()
found_validator_matches(qs, node_set) ==
    TakeCount(Cardinality({i \in DOMAIN qs.validators : qs.validators[i] \in node_set}),
              qs.threshold)

\* QuorumSet::is_quorum
RECURSIVE QuorumSetIsQuorum(_, _)
QuorumSetIsQuorum(qs, node_set) ==
    LET fv == found_validator_matches(qs, node_set)
        found_inner_quorum_set_matches ==
            TakeCount(Cardinality({i \in DOMAIN qs.inner_quorum_sets :
                                     QuorumSetIsQuorum(qs.inner_quorum_sets[i], node_set)}),
                      UsizeSub(qs.threshold, fv))
    IN  fv + found_inner_quorum_set_matches = qs.threshold

\* QuorumSet::is_quorum: whether `self.threshold - found_validator_matches`
\* underflows (a panic in a debug build) in this quorum set or an inner one
RECURSIVE QuorumSetUnderflows(_, _)
QuorumSetUnderflows(qs, node_set) ==
    \/ found_validator_matches(qs, node_set) > qs.threshold
    \/ \E i \in DOMAIN qs.inner_quorum_sets :
           QuorumSetUnderflows(qs.inner_quorum_sets[i], node_set)

\* Node::is_quorum (a node of the model is its quorum set)
NodeIsQuorum(node, node_set) == QuorumSetIsQuorum(node, node_set)

\* Network::is_quorum
NetworkIsQuorum(net, node_set) ==
    /\ node_set # {}
    /\ ~ \E x \in node_set : ~ NodeIsQuorum(net[x + 1], node_set)

(***************************************************************************)
(* quorums.rs: minimal quorums and quorum intersection.                    *)
(***************************************************************************)
\* the stable insertion of x behind every element that is not longer
RECURSIVE InsertByLen(_, _)
InsertByLen(sorted, x) ==
    IF sorted = <<>> THEN <<x>>
    ELSE IF Cardinality(sorted[Len(sorted)]) <= Cardinality(x)
         THEN Append(sorted, x)
         ELSE Append(InsertByLen(SubSeq(sorted, 1, Len(sorted) - 1), x),
                     sorted[Len(sorted)])

\* node_sets.sort_by(|x, y| x.len().cmp(&y.len())), wrongly left out
SortNot(node_sets) == node_sets

\* node_sets.sort_by(|x, y| x.len().cmp(&y.len())): a stable sort
RECURSIVE SortByLen(_)
SortByLen(node_sets) ==
    IF node_sets = <<>> THEN <<>>
    ELSE InsertByLen(SortByLen(SubSeq(node_sets, 1, Len(node_sets) - 1)),
                     node_sets[Len(node_sets)])

\* the loop of remove_non_minimal_node_sets over the sorted list
RECURSIVE KeepMinimal(_, _)
KeepMinimal(node_sets, minimal_node_sets) ==
    IF node_sets = <<>> THEN minimal_node_sets
    ELSE LET node_set == Head(node_sets)
         IN  IF ~ \E i \in DOMAIN minimal_node_sets : minimal_node_sets[i] \subseteq node_set
             THEN KeepMinimal(Tail(node_sets), Append(minimal_node_sets, node_set))
             ELSE KeepMinimal(Tail(node_sets), minimal_node_sets)

\* remove_non_minimal_node_sets
remove_non_minimal_node_sets(node_sets) == KeepMinimal(SortByLen(node_sets), <<>>)

\* get_minimal_quorums_step; unprocessed is a LIFO queue, popped at its end
RECURSIVE get_minimal_quorums_step(_, _, _)
get_minimal_quorums_step(unprocessed, selection, net) ==
    IF NetworkIsQuorum(net, selection) THEN <<selection>>
    ELSE IF unprocessed # <<>>
         THEN LET current_candidate == unprocessed[Len(unprocessed)]
                  rest == SubSeq(unprocessed, 1, Len(unprocessed) - 1)
              IN  get_minimal_quorums_step(rest, selection \cup {current_candidate}, net)
                  \o get_minimal_quorums_step(rest, selection \ {current_candidate}, net)
         ELSE <<>>

\* (0..n).collect() followed by reverse()
ReversedIds(n) == [i \in 1..n |-> n - i]

\* get_minimal_quorums
get_minimal_quorums(net) ==
    remove_non_minimal_node_sets(
        get_minimal_quorums_step(ReversedIds(Len(net)), {}, net))

\* BitSet::is_disjoint
is_disjoint(x, y) == x \cap y = {}

\* all_node_sets_interesect with skip(i + 2) for skip(i + 1)
all_node_sets_interesect_skip2(node_sets) ==
    \A i \in DOMAIN node_sets :
        \A j \in (i + 2)..Len(node_sets) : ~ is_disjoint(node_sets[i], node_sets[j])

\* all_node_sets_interesect
all_node_sets_interesect(node_sets) ==
    \A i \in DOMAIN node_sets :
        \A j \in (i + 1)..Len(node_sets) : ~ is_disjoint(node_sets[i], node_sets[j])

\* has_quorum_intersection
has_quorum_intersection(net) == all_node_sets_interesect(get_minimal_quorums(net))

(***************************************************************************)
(* The networks handed to the analysis.                                    *)
(***************************************************************************)
\* the NodeIds of a network of n nodes
Ids(n) == 0..(n - 1)

\* quorum sets without inner quorum sets over n nodes (validators without
\* duplicates, every threshold up to MaxThreshold, satisfiable or not)
LeafQuorumSets(n) ==
    { [threshold |-> t, validators |-> AscSeq(V), inner_quorum_sets |-> <<>>] :
        t \in 0..MaxThreshold, V \in SUBSET Ids(n) }

\* sequences over S of length at most k
RECURSIVE SeqsUpTo(_, _)
SeqsUpTo(S, k) ==
    IF k = 0 THEN {<<>>}
    ELSE LET shorter == SeqsUpTo(S, k - 1)
         IN  shorter \cup {Append(s, x) : s \in shorter, x \in S}

\* quorum sets with up to MaxInner inner quorum sets over n nodes
TreeQuorumSets(n) ==
    { [threshold |-> t, validators |-> AscSeq(V), inner_quorum_sets |-> inner] :
        t \in 0..MaxThreshold, V \in SUBSET Ids(n),
        inner \in SeqsUpTo(LeafQuorumSets(n), MaxInner) }

\* the networks of n nodes: any quorum set without inner sets per node, or one
\* quorum set with inner sets shared by all nodes
Networks(n) ==
    [1..n -> LeafQuorumSets(n)] \cup {[i \in 1..n |-> qs] : qs \in TreeQuorumSets(n)}

NoCall == [op |-> "none"]

\* the analysis is not in use
QuorumsIdle == network = <<>> /\ call = NoCall

\* the simulation is not in use
SimulationIdle == qsc = [none |-> TRUE] /\ fbas = <<>> /\ last = [none |-> TRUE] /\ sim = [pc |-> "idle"]

\* no graph is generated
GraphIdle == gen = [pc |-> "idle"]

InitQ ==
    /\ \E n \in 0..MaxNodes : network \in Networks(n)
    /\ call = NoCall
    /\ SimulationIdle
    /\ GraphIdle

\* Network::is_quorum(node_set)
CallIsQuorum ==
    /\ call = NoCall
    /\ \E node_set \in SUBSET Ids(Len(network)) :
           call' = [op |-> "is_quorum", node_set |-> node_set,
                    result |-> NetworkIsQuorum(network, node_set),
                    underflow |-> \E x \in node_set :
                                      QuorumSetUnderflows(network[x + 1], node_set)]
    /\ UNCHANGED <<network, svars, gen>>

\* get_minimal_quorums(network)
CallGetMinimalQuorums ==
    /\ call = NoCall
    /\ call' = [op |-> "get_minimal_quorums", result |-> get_minimal_quorums(network)]
    /\ UNCHANGED <<network, svars, gen>>

\* has_quorum_intersection(network)
CallHasQuorumIntersection ==
    /\ call = NoCall
    /\ call' = [op |-> "has_quorum_intersection", result |-> has_quorum_intersection(network)]
    /\ UNCHANGED <<network, svars, gen>>

\* the caller takes the result; the network is left for the next call
Return ==
    /\ call # NoCall
    /\ call' = NoCall
    /\ UNCHANGED <<network, svars, gen>>

NextQ == CallIsQuorum \/ CallGetMinimalQuorums \/ CallHasQuorumIntersection \/ Return

SpecQ == InitQ /\ [][NextQ]_vars

(***************************************************************************)
(* random.rs: SimpleRandomQsc.                                             *)
(***************************************************************************)
Range(seq) == {seq[i] : i \in DOMAIN seq}

\* slice.choose_multiple(rng, amount): min(amount, len) distinct elements of the
\* slice, every outcome of the random draw. The draw also shuffles the chosen
\* elements; the model lists them in ascending order, since the code reads a
\* validators list only through its length, its members and its emptiness.
choose_multiple(slice, amount) ==
    { AscSeq(chosen) : chosen \in { U \in SUBSET Range(slice) :
                                      Cardinality(U) = Min(amount, Len(slice)) } }

\* SimpleRandomQsc::new(size, threshold), and never_adapt() for adapt = FALSE
SimpleRandomQsc(size, threshold, adapt) ==
    [desired_quorum_set_size |-> size, desired_threshold |-> threshold,
     adapt_until_satisfied |-> adapt]

\* configure: the condition "we are not satisfied or it is an empty quorum set"
NotSatisfied(c, existing_quorum_set) ==
    \/ /\ c.adapt_until_satisfied
       /\ Len(existing_quorum_set.validators) < c.desired_quorum_set_size
    \/ existing_quorum_set = EmptyQuorumSet

\* the node ids 0..n without the filter on the nodes already used
all_nodes(existing_quorum_set, n) == AscSeq(Ids(n))

\* configure: (0..n).filter(|&x| !used_nodes.contains(x)).collect()
available_nodes(existing_quorum_set, n) ==
    AscSeq(Ids(n) \ Range(existing_quorum_set.validators))

\* configure: the quorum set left by the Change branch with new_validators drawn
Reconfigured(c, existing_quorum_set, n, new_validators) ==
    LET quorum_set_size == Min(c.desired_quorum_set_size, n)
        threshold == Min(quorum_set_size, c.desired_threshold)
    IN  [existing_quorum_set EXCEPT
            !.validators = existing_quorum_set.validators \o new_validators,
            !.threshold = threshold]

\* SimpleRandomQsc::configure(node_id, fbas): every outcome, as the FBAS it
\* leaves and the ChangeEffect it returns
configure(c, node_id, f) ==
    LET n == Len(f)
        existing_quorum_set == f[node_id + 1]
    IN  IF NotSatisfied(c, existing_quorum_set)
        THEN { [fbas |-> [f EXCEPT ![node_id + 1] =
                            Reconfigured(c, existing_quorum_set, n, new_validators)],
                effect |-> "Change"] :
               new_validators \in
                   choose_multiple(available_nodes(existing_quorum_set, n),
                                   Min(c.desired_quorum_set_size, n)) }
        ELSE { [fbas |-> f, effect |-> "NoChange"] }

\* the record of a configure call
Called(node_id, f, out) ==
    [node_id |-> node_id, n |-> Len(f), effect |-> out.effect,
     modified |-> out.fbas[node_id + 1] # f[node_id + 1]]

NoSimulator == [pc |-> "idle"]

\* the configurators a simulation is run with
Configurators ==
    { SimpleRandomQsc(size, threshold, adapt) :
        size \in 1..MaxDesired, threshold \in 0..MaxDesired, adapt \in BOOLEAN }

(***************************************************************************)
(* Any sequence of node additions and configure calls on an FBAS that      *)
(* starts empty.                                                           *)
(***************************************************************************)
InitSim ==
    /\ qsc \in Configurators
    /\ fbas = <<>>
    /\ last = [none |-> TRUE]
    /\ sim = NoSimulator
    /\ QuorumsIdle
    /\ GraphIdle

\* a node is added with the empty quorum set
AddNode ==
    /\ Len(fbas) < MaxSimNodes
    /\ fbas' = Append(fbas, EmptyQuorumSet)
    /\ UNCHANGED <<qsc, last, sim, qvars, gen>>

\* qsc.configure(node_id, &mut fbas)
Configure ==
    /\ \E node_id \in Ids(Len(fbas)) :
           \E out \in configure(qsc, node_id, fbas) :
               /\ fbas' = out.fbas
               /\ last' = Called(node_id, fbas, out)
    /\ UNCHANGED <<qsc, sim, qvars, gen>>

NextSim == AddNode \/ Configure

SpecSim == InitSim /\ [][NextSim]_vars

(***************************************************************************)
(* The Simulator: simulate_growth(k) appends a node with the empty quorum  *)
(* set, then runs passes of configure over all nodes in ascending order    *)
(* until a pass returns NoChange for every node; k times.                  *)
(***************************************************************************)
InitGrowth ==
    /\ qsc \in Configurators
    /\ fbas = <<>>
    /\ last = [none |-> TRUE]
    /\ sim = NoSimulator
    /\ QuorumsIdle
    /\ GraphIdle

\* simulate_growth(nodes_to_spawn) is called
SimulateGrowth ==
    /\ sim.pc \in {"idle", "returned"}
    /\ \E nodes_to_spawn \in 1..(MaxSimNodes - Len(fbas)) :
           sim' = [pc |-> "add", to_spawn |-> nodes_to_spawn]
    /\ UNCHANGED <<qsc, fbas, last, qvars, gen>>

\* one iteration starts: a fresh node with the empty quorum set is appended
SpawnNode ==
    /\ sim.pc = "add"
    /\ fbas' = Append(fbas, EmptyQuorumSet)
    /\ sim' = [pc |-> "pass", to_spawn |-> sim.to_spawn - 1, node_id |-> 0,
               any_change |-> FALSE]
    /\ UNCHANGED <<qsc, last, qvars, gen>>

\* the pass configures its next node
PassConfigure ==
    /\ sim.pc = "pass"
    /\ sim.node_id < Len(fbas)
    /\ \E out \in configure(qsc, sim.node_id, fbas) :
           /\ fbas' = out.fbas
           /\ last' = Called(sim.node_id, fbas, out)
           /\ sim' = [sim EXCEPT !.node_id = sim.node_id + 1,
                                 !.any_change = sim.any_change \/ out.effect = "Change"]
    /\ UNCHANGED <<qsc, qvars, gen>>

\* a pass in which some node changed is followed by another pass
PassAgain ==
    /\ sim.pc = "pass"
    /\ sim.node_id = Len(fbas)
    /\ sim.any_change
    /\ sim' = [sim EXCEPT !.node_id = 0, !.any_change = FALSE]
    /\ UNCHANGED <<qsc, fbas, last, qvars, gen>>

\* a pass of NoChange only ends the iteration; the last one ends simulate_growth
PassStable ==
    /\ sim.pc = "pass"
    /\ sim.node_id = Len(fbas)
    /\ ~ sim.any_change
    /\ sim' = IF sim.to_spawn > 0
              THEN [pc |-> "add", to_spawn |-> sim.to_spawn]
              ELSE [pc |-> "returned"]
    /\ UNCHANGED <<qsc, fbas, last, qvars, gen>>

NextGrowth == SimulateGrowth \/ SpawnNode \/ PassConfigure \/ PassAgain \/ PassStable

\* the simulator is single-threaded and synchronous: a call that is under way
\* takes its next step
SpecGrowth == InitGrowth /\ [][NextGrowth]_vars /\ WF_vars(NextGrowth)

(***************************************************************************)
(* graph/mod.rs: Graph::new_random_scale_free.                             *)
(***************************************************************************)
\* the connect! macro: outlinks[a].push(b); outlinks[b].push(a)
connect(outlinks, a, b) ==
    [outlinks EXCEPT ![a + 1] = Append(@, b), ![b + 1] = Append(@, a)]

\* the pairs (i, j) of "for i in 0..m0 { for j in i + 1..m0 {" in loop order
RECURSIVE InitPairs(_, _)
InitPairs(i, m0) ==
    IF i >= m0 THEN <<>>
    ELSE [d \in 1..(m0 - 1 - i) |-> <<i, i + d>>] \o InitPairs(i + 1, m0)

\* the init loop: connect!(i, j) for every pair
RECURSIVE ConnectAll(_, _)
ConnectAll(outlinks, pairs) ==
    IF pairs = <<>> THEN outlinks
    ELSE ConnectAll(connect(outlinks, Head(pairs)[1], Head(pairs)[2]), Tail(pairs))

\* Graph::is_undirected
is_undirected(outlinks) ==
    \A i \in DOMAIN outlinks :
        \A c \in DOMAIN outlinks[i] :
            \E d \in DOMAIN outlinks[outlinks[i][c] + 1] :
                outlinks[outlinks[i][c] + 1][d] = i - 1

\* the assertion at the entry of new_random_scale_free
ScaleFreeParametersMakeSense(n, m0, m) == 0 < m /\ m <= m0 /\ m <= n

\* possible_targets.choose_weighted(rng, |&x| outlinks[x].len()): the items a
\* draw can return; none when the list is empty or every weight is zero, and
\* the unwrap() then fails
choose_weighted(possible_targets, outlinks) ==
    {x \in Range(possible_targets) : Len(outlinks[x + 1]) > 0}

\* the filter(|&x| x != j) of a sequence
Without(seq, j) == SelectSeq(seq, LAMBDA x : x # j)

\* new_random_scale_free(n, m0, m) is called
ScaleFreeCall(n, m0, m) == [kind |-> "scale_free", pc |-> "entry", n |-> n, m0 |-> m0, m |-> m]

\* the entry: the assertion, and vec![vec![]; n]
ScaleFreeEntry ==
    /\ gen.kind = "scale_free"
    /\ gen.pc = "entry"
    /\ gen' = IF ScaleFreeParametersMakeSense(gen.n, gen.m0, gen.m)
              THEN [gen EXCEPT !.pc = "init"] @@ [outlinks |-> [x \in 1..gen.n |-> <<>>]]
              ELSE [gen EXCEPT !.pc = "rejected"]
    /\ UNCHANGED <<qvars, svars>>

\* the start of the iteration of "for i in m0..n", or the end of the loop
ScaleFreeRest(g, outlinks, i) ==
    IF i < g.n
    THEN [i |-> i, picks |-> 0, possible_targets |-> AscSeq(Ids(i))] @@
         [g EXCEPT !.pc = "rest", !.outlinks = outlinks]
    ELSE [kind |-> g.kind, pc |-> IF is_undirected(outlinks) THEN "done" ELSE "panicked",
          n |-> g.n, m0 |-> g.m0, m |-> g.m, outlinks |-> outlinks]

\* the init loop: nodes 0..m0-1 are connected pairwise; an index that is not
\* below n is out of the bounds of outlinks
ScaleFreeInit ==
    /\ gen.kind = "scale_free"
    /\ gen.pc = "init"
    /\ gen' = IF \E q \in Range(InitPairs(0, gen.m0)) : q[2] >= gen.n
              THEN [gen EXCEPT !.pc = "panicked"]
              ELSE ScaleFreeRest(gen, ConnectAll(gen.outlinks, InitPairs(0, gen.m0)), gen.m0)
    /\ UNCHANGED <<qvars, svars>>

\* one pass of "for _ in 0..m": a degree-weighted pick j, connect!(i, j), and j
\* leaves the possible targets
ScaleFreePick ==
    /\ gen.kind = "scale_free"
    /\ gen.pc = "rest"
    /\ IF choose_weighted(gen.possible_targets, gen.outlinks) = {}
       THEN gen' = [gen EXCEPT !.pc = "panicked"]
       ELSE \E j \in choose_weighted(gen.possible_targets, gen.outlinks) :
               LET outlinks == connect(gen.outlinks, gen.i, j)
               IN  gen' = IF gen.picks + 1 < gen.m
                          THEN [gen EXCEPT !.outlinks = outlinks,
                                           !.picks = gen.picks + 1,
                                           !.possible_targets = Without(@, j)]
                          ELSE ScaleFreeRest(gen, outlinks, gen.i + 1)
    /\ UNCHANGED <<qvars, svars>>

(***************************************************************************)
(* graph/mod.rs: Graph::new_random_small_world.  The matrix is modelled by *)
(* the set of the pairs <<i, j>> with matrix[i][j] = true.                 *)
(***************************************************************************)
\* the assertion at the entry of new_random_small_world
SmallWorldParametersMakeSense(n, k) == k % 2 = 0

\* step 1: the ring lattice
RingLattice(n, k) ==
    UNION { { <<i, (i + d) % n>>, <<(i + d) % n, i>> } : i \in Ids(n), d \in 1..(k \div 2) }

\* the list of free end nodes of node i
FreeEndNodes(matrix, n, i) ==
    AscSeq({j \in Ids(n) : i # j /\ <<i, j>> \notin matrix /\ <<j, i>> \notin matrix})

\* "for j in i + 1..=i + k / 2" with j % n, in loop order
ForwardNeighbours(n, k, i) == [d \in 1..(k \div 2) |-> (i + d) % n]

\* the subsequences of a sequence: the outcomes of one coin flip per element
RECURSIVE SubSeqs(_)
SubSeqs(seq) ==
    IF seq = <<>> THEN {<<>>}
    ELSE LET rest == SubSeqs(Tail(seq))
         IN  rest \cup {<<Head(seq)>> \o r : r \in rest}

\* the rewiring of (i, j) to (i, newj), wrongly leaving matrix[j][i] set
RewiredOneWay(g, j, newj) ==
    [g EXCEPT
        !.matrix = (@ \ {<<g.i, j>>}) \cup {<<g.i, newj>>, <<newj, g.i>>},
        !.possible_targets =
            [x \in DOMAIN @ |->
                IF x = g.i + 1 /\ x = newj + 1 THEN Without(Without(Append(@[x], j), newj), g.i)
                ELSE IF x = g.i + 1 THEN Without(Append(@[x], j), newj)
                ELSE IF x = j + 1 /\ x = newj + 1 THEN Without(Append(@[x], g.i), g.i)
                ELSE IF x = j + 1 THEN Append(@[x], g.i)
                ELSE IF x = newj + 1 THEN Without(@[x], g.i)
                ELSE @[x]],
        !.rewired = [existed |-> <<g.i, j>> \in g.matrix /\ <<j, g.i>> \in g.matrix,
                     fresh |-> <<g.i, newj>> \notin g.matrix /\ <<newj, g.i>> \notin g.matrix]]

\* the rewiring of (i, j) to (i, newj): the four matrix assignments, the two
\* pushes and the two retains, in the order of the code
Rewired(g, j, newj) ==
    [g EXCEPT
        !.matrix = (@ \ {<<g.i, j>>, <<j, g.i>>}) \cup {<<g.i, newj>>, <<newj, g.i>>},
        !.possible_targets =
            [x \in DOMAIN @ |->
                IF x = g.i + 1 /\ x = newj + 1 THEN Without(Without(Append(@[x], j), newj), g.i)
                ELSE IF x = g.i + 1 THEN Without(Append(@[x], j), newj)
                ELSE IF x = j + 1 /\ x = newj + 1 THEN Without(Append(@[x], g.i), g.i)
                ELSE IF x = j + 1 THEN Append(@[x], g.i)
                ELSE IF x = newj + 1 THEN Without(@[x], g.i)
                ELSE @[x]],
        !.rewired = [existed |-> <<g.i, j>> \in g.matrix /\ <<j, g.i>> \in g.matrix,
                     fresh |-> <<g.i, newj>> \notin g.matrix /\ <<newj, g.i>> \notin g.matrix]]

\* "transform to data format used here"
MatrixOutlinks(matrix, n) == [x \in 1..n |-> AscSeq({j \in Ids(n) : <<x - 1, j>> \in matrix})]

\* new_random_small_world(n, k, beta) is called; beta is the weight of the coin
SmallWorldCall(n, k) == [kind |-> "small_world", pc |-> "entry", n |-> n, k |-> k]

\* the entry: the assertion
SmallWorldEntry ==
    /\ gen.kind = "small_world"
    /\ gen.pc = "entry"
    /\ gen' = IF SmallWorldParametersMakeSense(gen.n, gen.k)
              THEN [gen EXCEPT !.pc = "lattice"]
              ELSE [gen EXCEPT !.pc = "rejected"]
    /\ UNCHANGED <<qvars, svars>>

\* the start of the iteration of "for i in 0..n" of step 2: a coin is flipped
\* for every forward neighbour j with matrix[i][j]; or the end of the function
SmallWorldNode(g, i) ==
    IF i < g.n
    THEN { [g EXCEPT !.i = i, !.to_be_rewired = flipped] :
             flipped \in SubSeqs(SelectSeq(ForwardNeighbours(g.n, g.k, i),
                                           LAMBDA j : <<i, j>> \in g.matrix)) }
    ELSE { [kind |-> g.kind,
            pc |-> IF is_undirected(MatrixOutlinks(g.matrix, g.n)) THEN "done" ELSE "panicked",
            n |-> g.n, k |-> g.k, matrix |-> g.matrix,
            possible_targets |-> g.possible_targets, rewired |-> g.rewired,
            outlinks |-> MatrixOutlinks(g.matrix, g.n)] }

\* step 1, and the lists of free end nodes: Vec::with_capacity(n - k) fails
\* for k > n (the subtraction overflows; wrapped, the capacity overflows)
SmallWorldLattice ==
    /\ gen.kind = "small_world"
    /\ gen.pc = "lattice"
    /\ IF gen.k > gen.n
       THEN gen' = [gen EXCEPT !.pc = "panicked"]
       ELSE LET matrix == RingLattice(gen.n, gen.k)
            IN  gen' \in SmallWorldNode(
                    [gen EXCEPT !.pc = "rewire"] @@
                    [matrix |-> matrix,
                     possible_targets |-> [x \in 1..gen.n |-> FreeEndNodes(matrix, gen.n, x - 1)],
                     i |-> 0, to_be_rewired |-> <<>>,
                     rewired |-> [existed |-> TRUE, fresh |-> TRUE]], 0)
    /\ UNCHANGED <<qvars, svars>>

\* one j of to_be_rewired.drain(..): rewired to a free end node of i, if any
SmallWorldRewire ==
    /\ gen.kind = "small_world"
    /\ gen.pc = "rewire"
    /\ gen.to_be_rewired # <<>>
    /\ LET j == Head(gen.to_be_rewired)
           drained == [gen EXCEPT !.to_be_rewired = Tail(@)]
       IN  IF gen.possible_targets[gen.i + 1] = <<>>
           THEN gen' = drained
           ELSE \E newj \in Range(gen.possible_targets[gen.i + 1]) :
                    gen' = Rewired(drained, j, newj)
    /\ UNCHANGED <<qvars, svars>>

\* the drain of node i is over: on to node i + 1
SmallWorldNext ==
    /\ gen.kind = "small_world"
    /\ gen.pc = "rewire"
    /\ gen.to_be_rewired = <<>>
    /\ gen' \in SmallWorldNode(gen, gen.i + 1)
    /\ UNCHANGED <<qvars, svars>>

(***************************************************************************)
(* A call of a graph generator with any parameters.                        *)
(***************************************************************************)
InitGraph ==
    /\ \/ \E n \in 0..MaxGraphNodes, m0, m \in 0..(MaxGraphNodes + 1) :
              gen = ScaleFreeCall(n, m0, m)
       \/ \E n \in 0..MaxGraphNodes, k \in 0..(MaxGraphNodes + 1) :
              gen = SmallWorldCall(n, k)
    /\ QuorumsIdle
    /\ SimulationIdle

NextGraph ==
    \/ ScaleFreeEntry \/ ScaleFreeInit \/ ScaleFreePick
    \/ SmallWorldEntry \/ SmallWorldLattice \/ SmallWorldRewire \/ SmallWorldNext

SpecGraph == InitGraph /\ [][NextGraph]_vars

(***************************************************************************)
(* The definitions of the specification, against which the code is held.   *)
(***************************************************************************)
\* a quorum set is satisfied by S: validators in S plus satisfied inner quorum
\* sets reach the threshold
RECURSIVE SatisfiedBy(_, _)
SatisfiedBy(qs, S) ==
    Cardinality({i \in DOMAIN qs.validators : qs.validators[i] \in S})
    + Cardinality({i \in DOMAIN qs.inner_quorum_sets :
                     SatisfiedBy(qs.inner_quorum_sets[i], S)})
    >= qs.threshold

\* S is a quorum of net
IsQuorumOf(net, S) == S # {} /\ \A x \in S : SatisfiedBy(net[x + 1], S)

\* the quorums of net
Quorums(net) == {S \in SUBSET Ids(Len(net)) : IsQuorumOf(net, S)}

(***************************************************************************)
(* Properties of the quorum analysis.                                      *)
(***************************************************************************)
\* C1: get_minimal_quorums returns exactly the subset-minimal quorums, each
\* once: every returned set is a quorum with no proper subset that is a quorum,
\* no returned set is a subset of another one of the list, and every quorum has
\* a returned set as a subset.
MinimalQuorumsExact ==
    call.op = "get_minimal_quorums" =>
        LET r == call.result
            Q == Quorums(network)
        IN  /\ \A i \in DOMAIN r :
                   r[i] \in Q /\ ~ \E P \in Q : P \subseteq r[i] /\ P # r[i]
            /\ \A i, j \in DOMAIN r : i # j => ~ (r[i] \subseteq r[j])
            /\ \A P \in Q : \E i \in DOMAIN r : r[i] \subseteq P

\* C1 witness: the search emitted a quorum that is not minimal, before the
\* minimal quorum inside it, and the filter removed it
MinimalQuorumsFiltered ==
    /\ call.op = "get_minimal_quorums"
    /\ Len(call.result) >= 1
    /\ LET emitted == get_minimal_quorums_step(ReversedIds(Len(network)), {}, network)
       IN  Len(emitted) > Len(call.result) /\ emitted[1] \notin {call.result[i] : i \in DOMAIN call.result}

\* C2: Network::is_quorum(S) is true iff S is non-empty and every node of S has
\* a quorum set satisfied by S (validators in S plus satisfied inner sets >=
\* threshold); the empty set is never a quorum, and no subtraction underflows.
IsQuorumMatchesDefinition ==
    call.op = "is_quorum" =>
        /\ ~ call.underflow
        /\ call.result = IsQuorumOf(network, call.node_set)
        /\ call.node_set = {} => call.result = FALSE

\* C2 witness: a quorum whose first node reaches its threshold of 2 only with
\* the help of an inner quorum set
IsQuorumNeedsInnerSet ==
    /\ call.op = "is_quorum"
    /\ call.result = TRUE
    /\ 0 \in call.node_set
    /\ network[1].threshold = 2
    /\ network[1].inner_quorum_sets # <<>>
    /\ Cardinality({i \in DOMAIN network[1].validators :
                      network[1].validators[i] \in call.node_set}) = 1
    /\ network[1].inner_quorum_sets[1].threshold >= 1

EmptyQuorumSetsGiveNoQuorum ==
    (\A i \in DOMAIN network : network[i] = EmptyQuorumSet) =>
        /\ call.op = "is_quorum" => call.result = FALSE
        /\ call.op = "get_minimal_quorums" => call.result = <<>>

(***************************************************************************)
(* Properties of SimpleRandomQsc and of the simulation.                    *)
(***************************************************************************)
\* C4: configure returns Change iff the node's quorum set after the call
\* differs from the one before, and NoChange iff it is left as it was.
ChangeIffModified ==
    "effect" \in DOMAIN last => (last.effect = "Change" <=> last.modified)

\* C5: the stabilisation loop of simulate_growth completes a pass of NoChange
\* for every node, in every iteration, and simulate_growth returns.
GrowthStabilises == (sim.pc = "add") ~> (sim.pc = "returned")

\* C10: no quorum set ever holds more than min(desired_size, n) validators, and
\* the threshold a configure call sets is min(desired_size, n, desired_threshold)
\* for the n of that call.
ValidatorsWithinDesiredSize ==
    /\ \A i \in DOMAIN fbas :
           Len(fbas[i].validators) <= Min(qsc.desired_quorum_set_size, Len(fbas))
    /\ ("effect" \in DOMAIN last /\ last.effect = "Change") =>
           fbas[last.node_id + 1].threshold =
               Min(Min(qsc.desired_quorum_set_size, last.n), qsc.desired_threshold)

(***************************************************************************)
(* Properties of the graph generators.                                     *)
(***************************************************************************)
RECURSIVE SumOfLens(_)
SumOfLens(outlinks) ==
    IF outlinks = <<>> THEN 0 ELSE Len(Head(outlinks)) + SumOfLens(Tail(outlinks))

\* the number of undirected edges, as the tests count it
EdgeCount(outlinks) == SumOfLens(outlinks) \div 2

NoSelfLoops(outlinks) == \A i \in DOMAIN outlinks : (i - 1) \notin Range(outlinks[i])

NoRepeatedEdges(outlinks) ==
    \A i \in DOMAIN outlinks : Cardinality(Range(outlinks[i])) = Len(outlinks[i])

\* C7: for 0 < m <= m0 <= n, new_random_scale_free completes without failing
\* and returns an undirected graph without self-loops or repeated edges, with
\* nodes 0..m0-1 pairwise connected and m0*(m0-1)/2 + (n-m0)*m edges.
ScaleFreeCompletes ==
    (gen.kind = "scale_free" /\ 0 < gen.m /\ gen.m <= gen.m0 /\ gen.m0 <= gen.n) =>
        /\ gen.pc \notin {"rejected", "panicked"}
        /\ gen.pc = "done" =>
              /\ is_undirected(gen.outlinks)
              /\ NoSelfLoops(gen.outlinks)
              /\ NoRepeatedEdges(gen.outlinks)
              /\ \A a, b \in Ids(gen.m0) : a # b => b \in Range(gen.outlinks[a + 1])
              /\ EdgeCount(gen.outlinks) =
                     (gen.m0 * (gen.m0 - 1)) \div 2 + (gen.n - gen.m0) * gen.m

\* C8: for k even and k < n, new_random_small_world returns an undirected graph
\* without self-loops with n*k/2 edges: every rewiring step removes an existing
\* edge and adds one that did not exist, and every list of possible targets
\* stays the list, without repetition, of the other nodes that are not adjacent.
SmallWorldKeepsEdgeCount ==
    (gen.kind = "small_world" /\ gen.k % 2 = 0 /\ gen.k < gen.n) =>
        /\ gen.pc \notin {"rejected", "panicked"}
        /\ gen.pc \in {"rewire", "done"} =>
              /\ \A e \in gen.matrix : e[1] # e[2] /\ <<e[2], e[1]>> \in gen.matrix
              /\ Cardinality(gen.matrix) = gen.n * gen.k
              /\ gen.rewired.existed /\ gen.rewired.fresh
              /\ \A i \in Ids(gen.n) :
                     /\ Range(gen.possible_targets[i + 1]) =
                            {j \in Ids(gen.n) : j # i /\ <<i, j>> \notin gen.matrix}
                     /\ Cardinality(Range(gen.possible_targets[i + 1])) =
                            Len(gen.possible_targets[i + 1])
        /\ gen.pc = "done" =>
              /\ is_undirected(gen.outlinks)
              /\ NoSelfLoops(gen.outlinks)
              /\ EdgeCount(gen.outlinks) = (gen.n * gen.k) \div 2

\* C8 witness: a small-world graph is returned in which some edge of the ring
\* lattice was rewired
SmallWorldRewiredGraph ==
    /\ gen.kind = "small_world"
    /\ gen.pc = "done"
    /\ gen.k % 2 = 0 /\ gen.k < gen.n
    /\ gen.matrix # RingLattice(gen.n, gen.k)

\* C9: parameters that violate 0 < m <= m0 <= n (scale-free) or "k even and
\* k < n" (small world) are rejected by the check at the entry: no such call
\* gets past it.
ViolatedPreconditionsRejectedAtEntry ==
    /\ (gen.kind = "scale_free" /\ ~ (0 < gen.m /\ gen.m <= gen.m0 /\ gen.m0 <= gen.n)) =>
           gen.pc \in {"entry", "rejected"}
    /\ (gen.kind = "small_world" /\ ~ (gen.k % 2 = 0 /\ gen.k < gen.n)) =>
           gen.pc \in {"entry", "rejected"}

\* C11: from the empty FBAS, after any additions of nodes with the empty
\* quorum set and any configure calls, every node's quorum set has
\* 0 <= threshold <= number of validators, lists no NodeId twice and lists
\* only NodeIds below the number of nodes; and the set of all nodes is a
\* quorum whenever the FBAS is not empty.
QuorumSetsWellFormed ==
    /\ \A i \in DOMAIN fbas :
           /\ 0 <= fbas[i].threshold
           /\ fbas[i].threshold <= Len(fbas[i].validators)
           /\ Cardinality(Range(fbas[i].validators)) = Len(fbas[i].validators)
           /\ \A j \in DOMAIN fbas[i].validators :
                  fbas[i].validators[j] \in Ids(Len(fbas))
    /\ fbas # <<>> => NetworkIsQuorum(fbas, Ids(Len(fbas)))

\* a node that was configured again after the network grew: it lists more
\* validators than the desired size and has threshold 2, next to nodes that
\* were configured once
ReconfiguredAfterGrowth ==
    /\ "effect" \in DOMAIN last
    /\ last.effect = "Change"
    /\ last.n = MaxSimNodes
    /\ fbas[last.node_id + 1].threshold = 2
    /\ Len(fbas[last.node_id + 1].validators) > qsc.desired_quorum_set_size
    /\ \A i \in DOMAIN fbas : fbas[i] # EmptyQuorumSet

====
